---- MODULE Spec2Model ----
(***************************************************************************)
(* The CropYieldPredictor form component (React) mounted by the Index      *)
(* page.  State cells are the component's useState cells; every event      *)
(* handler runs to its first await as one step (the runtime is single      *)
(* threaded and re-renders between events), and every resumption after an  *)
(* await is a step of its own.                                             *)
(*                                                                         *)
(* Numbers are kept in tenths (4.2 is 42), coordinates in 1e-5 degrees.    *)
(* A nullable value is <<>> (null / NaN / undefined) or <<v>>.             *)
(***************************************************************************)
EXTENDS Integers, Sequences, FiniteSets, TLC

VARIABLES
    data,                 \* useState<PredictionData>
    selectedFertilizers,  \* useState<string[]>
    isOnline,             \* useState(navigator.onLine)
    isLoading,            \* useState(false)
    isLocating,           \* useState(false)
    result,               \* useState<PredictionResult | null>
    hasGeolocation,       \* navigator.geolocation is present
    inflight,             \* detectLocation invocations suspended at an await
    predictLog,           \* Index.handlePredict: calls received, last payload
    saveLog,              \* Index.handleSave: calls received, last payload
    last,                 \* the step just taken: handler, what it called, its toast
    ops,                  \* number of user / platform events so far
    budget                \* number of events the run is explored for

vars == <<data, selectedFertilizers, isOnline, isLoading, isLocating, result,
          hasGeolocation, inflight, predictLog, saveLog, last, ops, budget>>

\* ------------------------------------------------------------------ bounds
MaxOps == 4
MaxFlowOps == 7
MaxOutcomeOps == 6

\* ------------------------------------------------------------- input sets
Null == <<>>
Some(x) == <<x>>

CROPS == {"Rice"}
SOIL_TYPES == {"Loamy"}
IRRIGATION_SOURCES == {"Canal"}
COMMON_FERTILIZERS == {"Urea", "DAP"}
FARM_SIZE_UNITS == {"Hectares", "Acres"}
Varieties == {"", "Basmati"}
Dates == {Null, Some(1)}
SizeInputs == {<<>>, <<"0">>, <<"2", ".", "5">>, <<"-", "1">>}
LevelInputs == {<<>>, <<"6", ".", "5">>}
Positions == {[latitude |-> 2861394, longitude |-> 7720906],
              [latitude |-> 1907598, longitude |-> 7287766]}
PositionErrorCodes == {1, 2, 3}

\* ---------------------------------------------------------------- helpers
DigitValue(c) ==
    CASE c = "0" -> 0 [] c = "1" -> 1 [] c = "2" -> 2 [] c = "3" -> 3
      [] c = "4" -> 4 [] c = "5" -> 5 [] c = "6" -> 6 [] c = "7" -> 7
      [] c = "8" -> 8 [] c = "9" -> 9 [] OTHER -> -1

IsDigit(c) == DigitValue(c) >= 0

RECURSIVE ParseDigits(_, _, _)
\* <<value of the leading digits of s from position i, first position after them>>
ParseDigits(s, i, acc) ==
    IF i <= Len(s) /\ IsDigit(s[i])
    THEN ParseDigits(s, i + 1, 10 * acc + DigitValue(s[i]))
    ELSE <<acc, i>>

\* parseFloat on the text of a number input, in tenths; <<>> is NaN
ParseFloat(s) ==
    LET neg == Len(s) >= 1 /\ s[1] = "-"
        start == IF neg THEN 2 ELSE 1
        whole == ParseDigits(s, start, 0)
        hasFrac == whole[2] + 1 <= Len(s) /\ s[whole[2]] = "." /\ IsDigit(s[whole[2] + 1])
        tenths == IF hasFrac THEN DigitValue(s[whole[2] + 1]) ELSE 0
        mag == 10 * whole[1] + tenths
    IN  IF whole[2] = start /\ ~hasFrac THEN Null
        ELSE Some(IF neg THEN 0 - mag ELSE mag)

\* JavaScript truthiness of a number: NaN and 0 are falsy
Truthy(p) == p # Null /\ p # Some(0)

\* parseFloat(x) || 0
OrZero(p) == IF Truthy(p) THEN p[1] ELSE 0

\* parseFloat(x) || null
OrNull(p) == IF Truthy(p) THEN p ELSE Null

\* Number.prototype.toFixed(4) of a non-negative coordinate, in 1e-4 degrees
ToFixed4(x) == (x + 5) \div 10

LocationName(p) == <<ToFixed4(p.latitude), ToFixed4(p.longitude)>>

Includes(seq, x) == \E i \in 1..Len(seq) : seq[i] = x

Filter(seq, x) == SelectSeq(seq, LAMBDA f : f # x)

SetOf(seq) == {seq[i] : i \in 1..Len(seq)}

NoDuplicates(seq) == \A i, j \in 1..Len(seq) : seq[i] = seq[j] => i = j

\* ------------------------------------------------------------ initial state
InitialData ==
    [cropName |-> "", variety |-> "", sowingDate |-> Null, farmLocation |-> Null,
     farmSize |-> [value |-> 0, unit |-> "Hectares"], soilType |-> "",
     soilPH |-> Null, nLevel |-> Null, pLevel |-> Null, kLevel |-> Null,
     irrigationSource |-> "", lastIrrigationDate |-> Null,
     fertilizersUsed |-> <<>>, pestObserved |-> FALSE]

Step(op, arg, calls, toast, fertBefore) ==
    [op |-> op, arg |-> arg, calls |-> calls, toast |-> toast, fert |-> fertBefore]

Mounted ==
    /\ data = InitialData
    /\ selectedFertilizers = <<>>
    /\ isOnline \in BOOLEAN
    /\ isLoading = FALSE
    /\ isLocating = FALSE
    /\ result = Null
    /\ hasGeolocation \in BOOLEAN
    /\ inflight = <<>>
    /\ predictLog = [n |-> 0, payload |-> Null]
    /\ saveLog = [n |-> 0, payload |-> Null]
    /\ last = Step("mount", "", {}, "", <<>>)
    /\ ops = 0

Init == Mounted /\ budget = MaxOps

\* the same component, explored for longer runs over fewer widgets
FlowInit == Mounted /\ budget = MaxFlowOps

\* a user or platform event: counted against the budget
Event(op, arg, calls, toast) ==
    /\ ops < budget
    /\ ops' = ops + 1
    /\ UNCHANGED budget
    /\ last' = Step(op, arg, calls, toast, data.fertilizersUsed)

\* the resumption of a suspended handler: not an event
Resume(op, calls, toast) ==
    /\ UNCHANGED <<ops, budget>>
    /\ last' = Step(op, "", calls, toast, data.fertilizersUsed)

\* ------------------------------------------------------------ field updates
\* variant: rebuilds the group instead of spreading prev.farmSize
WithFarmSizeValueResetsUnit(prev, text) ==
    [prev EXCEPT !.farmSize = [value |-> OrZero(ParseFloat(text)), unit |-> "Hectares"]]

WithFarmSizeValue(prev, text) ==
    [prev EXCEPT !.farmSize = [prev.farmSize EXCEPT !.value = OrZero(ParseFloat(text))]]

WithFarmSizeUnit(prev, unit) ==
    [prev EXCEPT !.farmSize = [prev.farmSize EXCEPT !.unit = unit]]

UpdateOnly(op, arg, next) ==
    /\ Event(op, arg, {"setData"}, "")
    /\ data' = next
    /\ UNCHANGED <<selectedFertilizers, isOnline, isLoading, isLocating, result,
                   hasGeolocation, inflight, predictLog, saveLog>>

SetCropName(value) == UpdateOnly("cropName", "", [data EXCEPT !.cropName = value])

SetVariety(value) == UpdateOnly("variety", "", [data EXCEPT !.variety = value])

SetSowingDate(date) == UpdateOnly("sowingDate", "", [data EXCEPT !.sowingDate = date])

SetFarmSizeValue(text) == UpdateOnly("farmSize.value", "", WithFarmSizeValue(data, text))

SetFarmSizeUnit(unit) == UpdateOnly("farmSize.unit", "", WithFarmSizeUnit(data, unit))

SetSoilType(value) == UpdateOnly("soilType", "", [data EXCEPT !.soilType = value])

SetSoilPH(text) == UpdateOnly("soilPH", "", [data EXCEPT !.soilPH = OrNull(ParseFloat(text))])

SetNLevel(text) == UpdateOnly("nLevel", "", [data EXCEPT !.nLevel = OrNull(ParseFloat(text))])

SetPLevel(text) == UpdateOnly("pLevel", "", [data EXCEPT !.pLevel = OrNull(ParseFloat(text))])

SetKLevel(text) == UpdateOnly("kLevel", "", [data EXCEPT !.kLevel = OrNull(ParseFloat(text))])

SetIrrigationSource(value) ==
    UpdateOnly("irrigationSource", "", [data EXCEPT !.irrigationSource = value])

SetLastIrrigationDate(date) ==
    UpdateOnly("lastIrrigationDate", "", [data EXCEPT !.lastIrrigationDate = date])

SetPestObserved(checked) ==
    UpdateOnly("pestObserved", "", [data EXCEPT !.pestObserved = checked])

\* ---------------------------------------------------------- network status
HandleOnline ==
    /\ Event("online", "", {"setIsOnline"}, "")
    /\ isOnline' = TRUE
    /\ UNCHANGED <<data, selectedFertilizers, isLoading, isLocating, result,
                   hasGeolocation, inflight, predictLog, saveLog>>

HandleOffline ==
    /\ Event("offline", "", {"setIsOnline"}, "")
    /\ isOnline' = FALSE
    /\ UNCHANGED <<data, selectedFertilizers, isLoading, isLocating, result,
                   hasGeolocation, inflight, predictLog, saveLog>>

\* -------------------------------------------------------- toggleFertilizer
\* variant: appends without looking for the name
ToggleAlwaysAppends(selected, fertilizer) == Append(selected, fertilizer)

ToggleList(selected, fertilizer) ==
    IF Includes(selected, fertilizer)
    THEN Filter(selected, fertilizer)
    ELSE Append(selected, fertilizer)

\* variant: the badge state is updated and the form is not
ToggleFertilizerWidgetOnly(fertilizer) ==
    LET updated == ToggleList(selectedFertilizers, fertilizer)
    IN  /\ Event("toggleFertilizer", fertilizer, {"setSelectedFertilizers"}, "")
        /\ selectedFertilizers' = updated
        /\ UNCHANGED <<data, isOnline, isLoading, isLocating, result, hasGeolocation,
                       inflight, predictLog, saveLog>>

ToggleFertilizer(fertilizer) ==
    LET updated == ToggleList(selectedFertilizers, fertilizer)
    IN  /\ Event("toggleFertilizer", fertilizer, {"setSelectedFertilizers", "setData"}, "")
        /\ selectedFertilizers' = updated
        /\ data' = [data EXCEPT !.fertilizersUsed = updated]
        /\ UNCHANGED <<isOnline, isLoading, isLocating, result, hasGeolocation,
                       inflight, predictLog, saveLog>>

\* ---------------------------------------------------- Index page callbacks
\* Index.handlePredict / Index.handleSave: console.log of the payload
IndexReceive(log, payload) == [n |-> log.n + 1, payload |-> Some(payload)]

\* ------------------------------------------------------------ handlePredict
\* variant: the soil type is not required
ValidationIgnoresSoilType(d) == d.cropName = "" \/ d.farmSize.value = 0

\* !data.cropName || !data.soilType || !data.farmSize.value
ValidationFails(d) == d.cropName = "" \/ d.soilType = "" \/ d.farmSize.value = 0

\* variant: isOffline: isOnline
MockResultOnlineFlag(d, online) ==
    [predictedYield |-> [value |-> 42, unit |-> "tonnes/hectare"],
     confidenceInterval |-> [min |-> 38, max |-> 46],
     recommendations |-> <<"irrigation", "fertilization", "pest">>,
     explanation |-> <<d.cropName, d.soilPH>>,
     isOffline |-> online]

MockResult(d, online) ==
    [predictedYield |-> [value |-> 42, unit |-> "tonnes/hectare"],
     confidenceInterval |-> [min |-> 38, max |-> 46],
     recommendations |-> <<"irrigation", "fertilization", "pest">>,
     explanation |-> <<d.cropName, d.soilPH>>,
     isOffline |-> ~online]

\* variant: notifies the page before validating
HandlePredictNotifiesFirst ==
    /\ ~isLoading
    /\ predictLog' = IndexReceive(predictLog, data)
    /\ IF ValidationFails(data)
       THEN /\ Event("handlePredict", "", {"onPredict", "toast"}, "Missing information")
            /\ UNCHANGED <<isLoading, result>>
       ELSE /\ Event("handlePredict", "", {"onPredict", "setIsLoading", "setResult"}, "")
            /\ result' = Some(MockResult(data, isOnline))
            /\ isLoading' = FALSE
    /\ UNCHANGED <<data, selectedFertilizers, isOnline, isLocating, hasGeolocation,
                   inflight, saveLog>>

\* variant: a rejected submission also clears the former outcome
HandlePredictClearsOnInvalid ==
    /\ ~isLoading
    /\ IF ValidationFails(data)
       THEN /\ Event("handlePredict", "", {"setResult", "toast"}, "Missing information")
            /\ result' = Null
            /\ UNCHANGED <<isLoading, predictLog>>
       ELSE /\ Event("handlePredict", "", {"setIsLoading", "setResult", "onPredict"}, "")
            /\ result' = Some(MockResult(data, isOnline))
            /\ predictLog' = IndexReceive(predictLog, data)
            /\ isLoading' = FALSE
    /\ UNCHANGED <<data, selectedFertilizers, isOnline, isLocating, hasGeolocation,
                   inflight, saveLog>>

HandlePredict ==
    /\ ~isLoading
    /\ IF ValidationFails(data)
       THEN /\ Event("handlePredict", "", {"toast"}, "Missing information")
            /\ UNCHANGED <<isLoading, result, predictLog>>
       ELSE /\ Event("handlePredict", "", {"setIsLoading", "setResult", "onPredict"}, "")
            /\ result' = Some(MockResult(data, isOnline))
            /\ predictLog' = IndexReceive(predictLog, data)
            /\ isLoading' = FALSE
    /\ UNCHANGED <<data, selectedFertilizers, isOnline, isLocating, hasGeolocation,
                   inflight, saveLog>>

\* handlePredict with an onPredict prop that throws after taking the call:
\* setResult has run, the catch block toasts, finally clears the flag
HandlePredictCallbackThrows ==
    /\ ~isLoading
    /\ ~ValidationFails(data)
    /\ Event("handlePredict", "", {"setIsLoading", "setResult", "onPredict", "toast"},
             "Prediction error")
    /\ result' = Some(MockResult(data, isOnline))
    /\ predictLog' = IndexReceive(predictLog, data)
    /\ isLoading' = FALSE
    /\ UNCHANGED <<data, selectedFertilizers, isOnline, isLocating, hasGeolocation,
                   inflight, saveLog>>

\* --------------------------------------------------------------- handleSave
\* variant: save behind the gate of predict
HandleSaveValidated ==
    /\ Event("handleSave", "", {"toast"}, "Data saved")
    /\ saveLog' = IF ValidationFails(data) THEN saveLog ELSE IndexReceive(saveLog, data)
    /\ UNCHANGED <<data, selectedFertilizers, isOnline, isLoading, isLocating, result,
                   hasGeolocation, inflight, predictLog>>

HandleSave ==
    /\ Event("handleSave", "", {"onSave", "toast"}, "Data saved")
    /\ saveLog' = IndexReceive(saveLog, data)
    /\ UNCHANGED <<data, selectedFertilizers, isOnline, isLoading, isLocating, result,
                   hasGeolocation, inflight, predictLog>>

\* ----------------------------------------------------------- detectLocation
RemoveAt(seq, i) == SubSeq(seq, 1, i - 1) \o SubSeq(seq, i + 1, Len(seq))

\* the invocation as it suspends at getCurrentPosition; isOnline is the
\* value closed over by the callback that was invoked
Suspended(online) ==
    [online |-> online, pc |-> "position", weather |-> "idle", soil |-> "idle"]

\* variant: the button is not disabled while locating
DetectLocationUnguarded ==
    /\ IF ~hasGeolocation
       THEN /\ Event("detectLocation", "", {"toast"}, "Location not supported")
            /\ UNCHANGED <<isLocating, inflight>>
       ELSE /\ Event("detectLocation", "", {"setIsLocating", "getCurrentPosition"}, "")
            /\ isLocating' = TRUE
            /\ inflight' = Append(inflight, Suspended(isOnline))
    /\ UNCHANGED <<data, selectedFertilizers, isOnline, isLoading, result,
                   hasGeolocation, predictLog, saveLog>>

\* the Detect GPS button (disabled while isLocating) invoking detectLocation
DetectLocation ==
    /\ ~isLocating
    /\ IF ~hasGeolocation
       THEN /\ Event("detectLocation", "", {"toast"}, "Location not supported")
            /\ UNCHANGED <<isLocating, inflight>>
       ELSE /\ Event("detectLocation", "", {"setIsLocating", "getCurrentPosition"}, "")
            /\ isLocating' = TRUE
            /\ inflight' = Append(inflight, Suspended(isOnline))
    /\ UNCHANGED <<data, selectedFertilizers, isOnline, isLoading, result,
                   hasGeolocation, predictLog, saveLog>>

WithFarmLocation(prev, position) ==
    [prev EXCEPT !.farmLocation = Some([lat |-> position.latitude,
                                        lon |-> position.longitude,
                                        name |-> LocationName(position)])]

\* whether the enrichment fetchers run, for an invocation record
FetchesEnrichment(call) == call.online

\* variant: the flag is released before the fetchers are awaited
PositionResolvedReleasesEarly(i, position) ==
    /\ i \in 1..Len(inflight)
    /\ inflight[i].pc = "position"
    /\ data' = WithFarmLocation(data, position)
    /\ isLocating' = FALSE
    /\ IF FetchesEnrichment(inflight[i])
       THEN /\ Resume("position", {"setData", "setIsLocating", "fetchWeatherData",
                                   "fetchSoilData"}, "")
            /\ inflight' = [inflight EXCEPT ![i] =
                               [@ EXCEPT !.pc = "enrich", !.weather = "fetch", !.soil = "fetch"]]
       ELSE /\ Resume("position", {"setData", "toast", "setIsLocating"}, "Location detected")
            /\ inflight' = RemoveAt(inflight, i)
    /\ UNCHANGED <<selectedFertilizers, isOnline, isLoading, result, hasGeolocation,
                   predictLog, saveLog>>

\* getCurrentPosition resolves: lines 196-217 up to the next await
PositionResolved(i, position) ==
    /\ i \in 1..Len(inflight)
    /\ inflight[i].pc = "position"
    /\ data' = WithFarmLocation(data, position)
    /\ IF FetchesEnrichment(inflight[i])
       THEN /\ Resume("position", {"setData", "fetchWeatherData", "fetchSoilData"}, "")
            /\ inflight' = [inflight EXCEPT ![i] =
                               [@ EXCEPT !.pc = "enrich", !.weather = "fetch", !.soil = "fetch"]]
            /\ UNCHANGED isLocating
       ELSE /\ Resume("position", {"setData", "toast", "setIsLocating"}, "Location detected")
            /\ inflight' = RemoveAt(inflight, i)
            /\ isLocating' = FALSE
    /\ UNCHANGED <<selectedFertilizers, isOnline, isLoading, result, hasGeolocation,
                   predictLog, saveLog>>

\* variant: the catch block resets the location
PositionRejectedClearsLocation(i, code) ==
    /\ i \in 1..Len(inflight)
    /\ inflight[i].pc = "position"
    /\ Resume("positionError", {"setData", "toast", "setIsLocating"}, "Location error")
    /\ data' = [data EXCEPT !.farmLocation = Null]
    /\ inflight' = RemoveAt(inflight, i)
    /\ isLocating' = FALSE
    /\ UNCHANGED <<selectedFertilizers, isOnline, isLoading, result, hasGeolocation,
                   predictLog, saveLog>>

\* getCurrentPosition rejects (1 denied, 2 unavailable, 3 timeout): catch, finally
PositionRejected(i, code) ==
    /\ i \in 1..Len(inflight)
    /\ inflight[i].pc = "position"
    /\ Resume("positionError", {"toast", "setIsLocating"}, "Location error")
    /\ UNCHANGED data
    /\ inflight' = RemoveAt(inflight, i)
    /\ isLocating' = FALSE
    /\ UNCHANGED <<selectedFertilizers, isOnline, isLoading, result, hasGeolocation,
                   predictLog, saveLog>>

\* fetch(...) then response.json(); a rejection of either is caught and logged
NextStage(stage, ok) == IF stage = "fetch" /\ ok THEN "json" ELSE "done"

\* what the fetcher writes to the console as an await settles: the catch
\* block logs the error, a parsed body is logged, a response alone is not
ConsoleCall(stage, ok) ==
    IF ~ok THEN {"console.error"}
    ELSE IF stage = "json" THEN {"console.log"} ELSE {}

\* one await of a fetcher settles; when both fetchers are done Promise.all
\* resolves and the invocation runs to its end (toast, finally)
Enriched(i, op, weather, soil, logged) ==
    /\ IF weather = "done" /\ soil = "done"
       THEN /\ Resume(op, logged \cup {"toast", "setIsLocating"}, "Location detected")
            /\ inflight' = RemoveAt(inflight, i)
            /\ isLocating' = FALSE
       ELSE /\ Resume(op, logged, "")
            /\ inflight' = [inflight EXCEPT ![i] = [@ EXCEPT !.weather = weather, !.soil = soil]]
            /\ UNCHANGED isLocating
    /\ UNCHANGED <<data, selectedFertilizers, isOnline, isLoading, result, hasGeolocation,
                   predictLog, saveLog>>

\* variant: fetchWeatherData without its try / catch, so a rejection reaches
\* the catch block of detectLocation through Promise.all
FetchWeatherDataRethrows(i, ok) ==
    /\ i \in 1..Len(inflight)
    /\ inflight[i].pc = "enrich"
    /\ inflight[i].weather \in {"fetch", "json"}
    /\ IF ok
       THEN Enriched(i, "fetchWeatherData", NextStage(inflight[i].weather, ok),
                     inflight[i].soil, ConsoleCall(inflight[i].weather, ok))
       ELSE /\ Resume("fetchWeatherData", {"toast", "setIsLocating"}, "Location error")
            /\ inflight' = RemoveAt(inflight, i)
            /\ isLocating' = FALSE
            /\ UNCHANGED <<data, selectedFertilizers, isOnline, isLoading, result,
                           hasGeolocation, predictLog, saveLog>>

FetchWeatherData(i, ok) ==
    /\ i \in 1..Len(inflight)
    /\ inflight[i].pc = "enrich"
    /\ inflight[i].weather \in {"fetch", "json"}
    /\ Enriched(i, "fetchWeatherData", NextStage(inflight[i].weather, ok), inflight[i].soil,
                ConsoleCall(inflight[i].weather, ok))

FetchSoilData(i, ok) ==
    /\ i \in 1..Len(inflight)
    /\ inflight[i].pc = "enrich"
    /\ inflight[i].soil \in {"fetch", "json"}
    /\ Enriched(i, "fetchSoilData", inflight[i].weather, NextStage(inflight[i].soil, ok),
                ConsoleCall(inflight[i].soil, ok))

\* ------------------------------------------------------------ specification
\* indices a suspended invocation can have: each one costs an event
Slots == 1..MaxFlowOps

Next ==
    \/ \E c \in CROPS : SetCropName(c)
    \/ \E v \in Varieties : SetVariety(v)
    \/ \E d \in Dates : SetSowingDate(d)
    \/ \E t \in SizeInputs : SetFarmSizeValue(t)
    \/ \E u \in FARM_SIZE_UNITS : SetFarmSizeUnit(u)
    \/ \E s \in SOIL_TYPES : SetSoilType(s)
    \/ \E t \in LevelInputs : SetSoilPH(t)
    \/ \E t \in LevelInputs : SetNLevel(t)
    \/ \E t \in LevelInputs : SetPLevel(t)
    \/ \E t \in LevelInputs : SetKLevel(t)
    \/ \E s \in IRRIGATION_SOURCES : SetIrrigationSource(s)
    \/ \E d \in Dates : SetLastIrrigationDate(d)
    \/ \E b \in BOOLEAN : SetPestObserved(b)
    \/ \E f \in COMMON_FERTILIZERS : ToggleFertilizer(f)
    \/ HandleOnline
    \/ HandleOffline
    \/ HandlePredict
    \/ HandleSave
    \/ DetectLocation
    \/ \E i \in Slots, p \in Positions : PositionResolved(i, p)
    \/ \E i \in Slots, c \in PositionErrorCodes : PositionRejected(i, c)
    \/ \E i \in Slots, ok \in BOOLEAN : FetchWeatherData(i, ok)
    \/ \E i \in Slots, ok \in BOOLEAN : FetchSoilData(i, ok)

Spec == Init /\ [][Next]_vars

\* the widgets that decide what predict and detectLocation do
FlowNext ==
    \/ \E c \in CROPS : SetCropName(c)
    \/ \E t \in SizeInputs : SetFarmSizeValue(t)
    \/ \E s \in SOIL_TYPES : SetSoilType(s)
    \/ HandleOnline
    \/ HandleOffline
    \/ HandlePredict
    \/ DetectLocation
    \/ \E i \in Slots, p \in Positions : PositionResolved(i, p)
    \/ \E i \in Slots, c \in PositionErrorCodes : PositionRejected(i, c)
    \/ \E i \in Slots, ok \in BOOLEAN : FetchWeatherData(i, ok)
    \/ \E i \in Slots, ok \in BOOLEAN : FetchSoilData(i, ok)

FlowSpec == FlowInit /\ [][FlowNext]_vars

\* position settles: getCurrentPosition is given timeout: 10000, so one of
\* its two callbacks runs; nothing bounds the two fetches
PositionSettles ==
    \/ \E i \in Slots, p \in Positions : PositionResolved(i, p)
    \/ \E i \in Slots, c \in PositionErrorCodes : PositionRejected(i, c)

FairSpec == FlowInit /\ [][FlowNext]_vars /\ WF_vars(PositionSettles)

\* the component under a page whose onPredict may throw (the prop is any
\* function of the payload; the Index page's own handler only logs)
PropNext ==
    \/ FlowNext
    \/ HandlePredictCallbackThrows

PropSpec == FlowInit /\ [][PropNext]_vars

\* the flow widgets together with a plain field, the fertilizer badges and save
OutcomeNext ==
    \/ FlowNext
    \/ \E v \in Varieties : SetVariety(v)
    \/ \E f \in COMMON_FERTILIZERS : ToggleFertilizer(f)
    \/ HandleSave

OutcomeInit == Mounted /\ budget = MaxOutcomeOps

OutcomeSpec == OutcomeInit /\ [][OutcomeNext]_vars

\* ------------------------------------------------------------------ claims
Others == <<selectedFertilizers, isOnline, isLocating, hasGeolocation, inflight>>

\* C1: a predict() with an empty crop name or an empty soil type fails with
\* the validation error and changes nothing: the outcome, the submitting
\* flag, the form and the page's onPredict log are as before the call.
C1_InvalidPredictChangesNothing ==
    [][(last'.op = "handlePredict" /\ (data.cropName = "" \/ data.soilType = ""))
        => /\ last'.toast = "Missing information"
           /\ result' = result
           /\ isLoading' = isLoading
           /\ "setIsLoading" \notin last'.calls
           /\ "onPredict" \notin last'.calls
           /\ predictLog' = predictLog
           /\ data' = data
           /\ saveLog' = saveLog
           /\ Others' = Others]_vars

C1_Witness ==
    /\ last.op = "handlePredict"
    /\ last.toast = "Missing information"
    /\ data.cropName = ""
    /\ data.soilType = "Loamy"
    /\ data.farmSize.value > 0
    /\ result = Null

\* C2: a predict() with a farm size of zero or less fails with the
\* validation error and produces no outcome.
C2_NonPositiveSizeRejected ==
    (last.op = "handlePredict" /\ data.farmSize.value <= 0)
        => (last.toast = "Missing information" /\ "setResult" \notin last.calls)

\* C3: a predict() with crop, soil type and a positive farm size succeeds
\* and leaves an outcome whose interval is ordered and whose isOffline is
\* the negation of isOnline as it stood when predict() was called.
C3_ValidPredictSucceeds ==
    [][(/\ last'.op = "handlePredict"
        /\ data.cropName # ""
        /\ data.soilType # ""
        /\ data.farmSize.value > 0)
        => /\ last'.toast = ""
           /\ result' # Null
           /\ result'[1].confidenceInterval.min <= result'[1].confidenceInterval.max
           /\ result'[1].isOffline = ~isOnline]_vars

C3_Witness ==
    /\ last.op = "handlePredict"
    /\ result # Null
    /\ result[1].isOffline
    /\ inflight # <<>>
    /\ inflight[1].online

\* C4: the page's onPredict receives exactly one call, carrying the form as
\* validated, in every predict() that succeeds, and none in any other step.
C4_OnPredictOncePerSuccess ==
    [][IF last'.op = "handlePredict" /\ last'.toast = ""
       THEN predictLog' = [n |-> predictLog.n + 1, payload |-> Some(data)]
       ELSE predictLog' = predictLog]_vars

C4_Witness ==
    /\ last.op = "handlePredict"
    /\ last.toast = "Missing information"
    /\ predictLog.n = 2
    /\ predictLog.payload # Some(data)

\* C5: every save() hands the form, as it is, to the page's onSave exactly
\* once, also when the form would fail validation, and changes nothing; no
\* other step calls onSave.
C5_SaveForwardsSnapshot ==
    [][IF last'.op = "handleSave"
       THEN /\ saveLog' = [n |-> saveLog.n + 1, payload |-> Some(data)]
            /\ data' = data
            /\ result' = result
            /\ isLoading' = isLoading
            /\ predictLog' = predictLog
            /\ Others' = Others
       ELSE saveLog' = saveLog]_vars

C5_Witness ==
    /\ last.op = "handleSave"
    /\ ValidationFails(data)
    /\ data.cropName = ""
    /\ data.variety = "Basmati"
    /\ saveLog.n = 2
    /\ saveLog.payload = Some(data)

\* the fields of the form a step may write
Targets(op) ==
    CASE op \in {"cropName", "variety", "sowingDate", "soilType", "soilPH", "nLevel",
                 "pLevel", "kLevel", "irrigationSource", "lastIrrigationDate",
                 "pestObserved"} -> {op}
      [] op \in {"farmSize.value", "farmSize.unit"} -> {"farmSize"}
      [] op = "toggleFertilizer" -> {"fertilizersUsed"}
      [] op = "position" -> {"farmLocation"}
      [] OTHER -> {}

\* C6: every step changes only the field it targets; a farm-size value
\* update keeps the unit and a unit update keeps the value; the location
\* write of a resumed detectLocation keeps every other field.
C6_UpdatesTouchOnlyTarget ==
    [][/\ \A f \in (DOMAIN data) \ Targets(last'.op) : data'[f] = data[f]
       /\ last'.op = "farmSize.value" => data'.farmSize.unit = data.farmSize.unit
       /\ last'.op = "farmSize.unit" => data'.farmSize.value = data.farmSize.value]_vars

C6_Witness ==
    /\ last.op = "farmSize.value"
    /\ inflight # <<>>
    /\ inflight[1].pc = "position"
    /\ data.farmSize = [value |-> 25, unit |-> "Acres"]

\* C7: fertilizersUsed never holds a name twice, and a toggle of the name
\* just toggled brings back the set held before the first of the two.
C7_ToggleTwiceRestores ==
    [][/\ NoDuplicates(data'.fertilizersUsed)
       /\ (/\ last.op = "toggleFertilizer"
           /\ last'.op = "toggleFertilizer"
           /\ last'.arg = last.arg)
          => SetOf(data'.fertilizersUsed) = SetOf(last.fert)]_vars

C7_Witness ==
    /\ last.op = "toggleFertilizer"
    /\ last.arg = "Urea"
    /\ last.fert = <<"Urea", "DAP">>
    /\ data.fertilizersUsed = <<"DAP">>
    /\ ops < budget

\* C8: when isOnline is false as detectLocation() obtains the position,
\* neither fetchWeatherData nor fetchSoilData is called.
C8_OfflineNoEnrichment ==
    (last.op = "position" /\ ~isOnline)
        => last.calls \cap {"fetchWeatherData", "fetchSoilData"} = {}

\* C9: the steps of a failing detectLocation() leave the form as it is, and
\* without a location provider the locating flag is not set.
C9_FailedDetectKeepsForm ==
    [][/\ last'.op \in {"detectLocation", "positionError"} => data' = data
       /\ last'.op = "positionError" => last'.toast = "Location error"
       /\ (last'.op = "detectLocation" /\ ~hasGeolocation)
          => /\ last'.toast = "Location not supported"
             /\ "setIsLocating" \notin last'.calls
             /\ isLocating' = isLocating
             /\ inflight' = inflight]_vars

C9_Witness ==
    /\ last.op = "positionError"
    /\ data.farmLocation # Null
    /\ data.cropName = "Rice"

\* C10: whenever the locating flag is set it is eventually cleared.
C10_LocatingEventuallyCleared == isLocating ~> ~isLocating

\* C11: a predict() whose resolution step fails leaves the outcome as it
\* was before the call and the submitting flag false.
C11_FailedResolutionKeepsOutcome ==
    [][(last'.op = "handlePredict" /\ last'.toast = "Prediction error")
        => (result' = result /\ isLoading' = FALSE)]_vars

\* C12: the outcome is absent until a predict() has succeeded, never becomes
\* absent again, and changes only in a successful predict(), which replaces
\* it as a whole by the outcome computed from the form and isOnline.
C12_OutcomeOnlyReplacedBySuccess ==
    [][/\ predictLog'.n = 0 => result' = Null
       /\ result # Null => result' # Null
       /\ result' # result
          => /\ last'.op = "handlePredict"
             /\ last'.toast = ""
             /\ result' = Some(MockResult(data, isOnline))]_vars

C12_Witness ==
    /\ last.op = "handlePredict"
    /\ last.toast = "Missing information"
    /\ result # Null
    /\ data.farmSize.value = 0

FetchOps == {"fetchWeatherData", "fetchSoilData"}

\* C13: a failing enrichment fetch is swallowed: the step keeps the form and
\* its location and raises no error toast, and the step that ends the
\* enrichment ends the call with the success toast and the flag cleared.
C13_EnrichmentFailureSwallowed ==
    [][last'.op \in FetchOps
        => /\ data' = data
           /\ data'.farmLocation # Null
           /\ last'.toast \in {"", "Location detected"}
           /\ Len(inflight') < Len(inflight)
              => (last'.toast = "Location detected" /\ ~isLocating')
           /\ Len(inflight') = Len(inflight)
              => (last'.toast = "" /\ isLocating' = isLocating)]_vars

C13_Witness ==
    /\ last.op = "fetchSoilData"
    /\ "console.error" \in last.calls
    /\ last.toast = "Location detected"
    /\ ~isLocating
    /\ inflight = <<>>
    /\ data.farmLocation # Null

\* C14 as claimed: while a detectLocation() call is in flight a second call
\* can be started (nothing guards the invocation).
C14_SecondCallCanStart ==
    (inflight # <<>> /\ ops < budget) => ENABLED DetectLocation

\* C14 as amended: at most one detectLocation() call is in flight, and while
\* one is, the Detect GPS button starts no other.
C14_SingleFlight ==
    /\ Len(inflight) <= 1
    /\ inflight # <<>> => ~ENABLED DetectLocation

C14_Witness ==
    /\ last.op = "detectLocation"
    /\ inflight # <<>>
    /\ inflight[1].pc = "position"
    /\ data.farmLocation # Null
    /\ ops < budget

\* C15: the locating flag is true whenever a detectLocation() call is in
\* flight, waiting for its position or for its enrichment fetches.
C15_LocatingWhileInFlight == inflight # <<>> => isLocating

C15_Witness ==
    /\ inflight # <<>>
    /\ inflight[1].pc = "enrich"
    /\ inflight[1].soil = "json"
    /\ isLocating
    /\ data.farmLocation # Null

\* C16: the fertilizer badges and the form hold the same names in the same
\* order.
C16_SelectionMatchesForm == selectedFertilizers = data.fertilizersUsed

C16_Witness ==
    /\ last.op = "toggleFertilizer"
    /\ last.fert = <<"DAP">>
    /\ selectedFertilizers = <<"DAP", "Urea">>
    /\ data.fertilizersUsed = <<"DAP", "Urea">>

====
